---- MODULE Spec2Model ----
(***************************************************************************)
(* ThreadBrief: the feedback webhook (scripts/feedback_listener.py) and    *)
(* the digest distributor (src/daily_digest/distributor.py), with the      *)
(* Feedback Store, the Feedback Metrics Engine and the formatter they call *)
(* modelled at their interface.                                            *)
(***************************************************************************)
EXTENDS Integers, Sequences, FiniteSets, TLC

VARIABLES
    signingSecret,   \* SIGNING_SECRET, "" when the environment sets none
    now,             \* time.time(), in seconds
    req,             \* the webhook deliveries: request id -> its handler's state
    nreq,            \* number of deliveries received so far
    digestItems,     \* Feedback Store: the DigestItem records
    feedbackEvents,  \* Feedback Store: the FeedbackEvent records, in write order
    rateCount,       \* Feedback Metrics: per-user counter of the current window
    faults,          \* StoreUnavailable failures injected so far
    freshTs,         \* message timestamps the platform has not handed out yet
    cfg,             \* a distribute run's inputs: configuration and digest
    dist             \* the distribute run: position, results, posts made

whVars == <<signingSecret, now, req, nreq, digestItems, feedbackEvents,
            rateCount, faults, freshTs>>

distVars == <<cfg, dist>>

vars == <<whVars, distVars>>

-----------------------------------------------------------------------------
(* Bounds of the model *)

MaxReq == 3
MaxFaults == 1
MaxTicks == 1
MaxAuthReq == 1

(* Program and configuration constants *)

REPLAY_WINDOW == 300
RATE_LIMIT == 2
Now0 == 1000

Users == {"U1", "U2"}
Reactions == {"white_check_mark", "random"}
DIGEST_CHANNEL == "C_DIGEST"
ItemIds == {"I1", "I2", "I3"}
NoItem == [digest_item_id |-> "none", team |-> "none",
           slack_message_ts |-> "none", slack_channel_id |-> "none"]

-----------------------------------------------------------------------------
(* Strings of the request headers are sequences of characters. *)

Digits == {"0", "1", "2", "3", "4", "5", "6", "7", "8", "9"}

DigitVal(c) ==
    CASE c = "0" -> 0 [] c = "1" -> 1 [] c = "2" -> 2 [] c = "3" -> 3
      [] c = "4" -> 4 [] c = "5" -> 5 [] c = "6" -> 6 [] c = "7" -> 7
      [] c = "8" -> 8 [] c = "9" -> 9 [] OTHER -> 0

RECURSIVE DigitsValue(_)
DigitsValue(s) ==
    IF s = <<>> THEN 0
    ELSE 10 * DigitsValue(SubSeq(s, 1, Len(s) - 1)) + DigitVal(s[Len(s)])

AllDigits(s) == \A k \in 1..Len(s) : s[k] \in Digits

\* int(timestamp): a decimal literal with an optional sign, ValueError otherwise
\* (the empty string, the default of a missing header, is a ValueError too).
ParseInt(s) ==
    IF s # <<>> /\ s[1] \in {"-", "+"}
    THEN IF Len(s) > 1 /\ AllDigits(Tail(s))
         THEN [ok |-> TRUE,
               val |-> IF s[1] = "-" THEN 0 - DigitsValue(Tail(s))
                                     ELSE DigitsValue(Tail(s))]
         ELSE [ok |-> FALSE, val |-> 0]
    ELSE IF s # <<>> /\ AllDigits(s)
         THEN [ok |-> TRUE, val |-> DigitsValue(s)]
         ELSE [ok |-> FALSE, val |-> 0]

Abs(x) == IF x < 0 THEN 0 - x ELSE x

\* hmac.new(secret, basestring, sha256).hexdigest(), collision free
HmacSha256(secret, basestring) == <<"hmac", secret, basestring>>

SigBasestring(timestamp, body) == <<"v0", timestamp, body>>

ExpectedSig(secret, timestamp, body) ==
    <<"v0=", HmacSha256(secret, SigBasestring(timestamp, body))>>

\* a signature header with a character outside ASCII: hmac.compare_digest
\* takes str arguments only when both are ASCII and raises TypeError otherwise
NonAsciiSignature == <<"v0=", <<"non-ascii">>>>

IsAscii(signature) == signature # NonAsciiSignature

\* request.get_data(as_text=True): the raw body decoded as UTF-8, a byte
\* that is no UTF-8 replaced by U+FFFD; Encode is str.encode of that text
get_data_as_text(body) ==
    IF body.type = "undecodable" THEN [body EXCEPT !.type = "replaced"]
    ELSE body

Encode(text) == text

\* "true", "false", or "raise" when an exception leaves the verifier
verify_slack_request(secret, headers, body, t) ==
    IF secret = "" THEN "true"
    ELSE LET p == ParseInt(headers.timestamp) IN
         IF ~p.ok THEN "raise"
         ELSE IF Abs(t - p.val) > REPLAY_WINDOW THEN "false"
         ELSE IF ~IsAscii(headers.signature) THEN "raise"
         ELSE IF ExpectedSig(secret, headers.timestamp,
                             Encode(get_data_as_text(body))) = headers.signature
              THEN "true" ELSE "false"

-----------------------------------------------------------------------------
(* Feedback Store and Feedback Metrics Engine, at their interface *)

emoji_to_feedback_type(reaction) ==
    CASE reaction = "white_check_mark" -> "positive"
      [] reaction = "x" -> "negative"
      [] OTHER -> "none"

get_item_by_message_ts(items, message_ts, channel_id) ==
    IF \E d \in items : d.slack_message_ts = message_ts
                        /\ d.slack_channel_id = channel_id
    THEN CHOOSE d \in items : d.slack_message_ts = message_ts
                              /\ d.slack_channel_id = channel_id
    ELSE NoItem

\* upsert by digest_item_id; a message reference maps to at most one item
StoreDigestItemConflict(items, d) ==
    \E e \in items : /\ e.digest_item_id # d.digest_item_id
                     /\ e.slack_message_ts = d.slack_message_ts
                     /\ e.slack_channel_id = d.slack_channel_id

store_digest_item(items, d) ==
    IF StoreDigestItemConflict(items, d) THEN items
    ELSE {e \in items : e.digest_item_id # d.digest_item_id} \cup {d}

EventsOf(events, user_id, digest_item_id) ==
    {k \in 1..Len(events) : /\ events[k].user_id = user_id
                            /\ events[k].digest_item_id = digest_item_id}

is_user_spamming(events, user_id, digest_item_id) ==
    EventsOf(events, user_id, digest_item_id) # {}

StoreFeedbackConflict(events, ev) ==
    EventsOf(events, ev.user_id, ev.digest_item_id) # {}

store_feedback(events, ev) ==
    IF StoreFeedbackConflict(events, ev) THEN events
    ELSE Append(events, ev)

\* atomic increment-and-compare on the user's counter of the current window
RateAllowed(counts, user_id) == counts[user_id] < RATE_LIMIT

check_rate_limit(counts, user_id) ==
    IF RateAllowed(counts, user_id)
    THEN [counts EXCEPT ![user_id] = @ + 1]
    ELSE counts

-----------------------------------------------------------------------------
(* The webhook: handle_slack_event and the handlers it dispatches to *)

Idle == [pc |-> "idle", headers |-> <<>>, at |-> 0, type |-> "none",
         etype |-> "none", user |-> "none", reaction |-> "none",
         channel |-> "none", ts |-> "none", fb |-> "none", item |-> NoItem,
         dispatched |-> FALSE, replay |-> FALSE, touched |-> {},
         outcome |-> "none", resp |-> 0]

Payload(type, etype, user, reaction, channel, ts) ==
    [type |-> type, etype |-> etype, user |-> user, reaction |-> reaction,
     channel |-> channel, ts |-> ts]

\* the request as received, before any line of the handler has run
Received(headers, payload, t) ==
    [Idle EXCEPT !.headers = headers, !.at = t, !.type = payload.type,
                 !.etype = payload.etype, !.user = payload.user,
                 !.reaction = payload.reaction, !.channel = payload.channel,
                 !.ts = payload.ts]

\* the handler returns (200, 403) or an exception leaves it (500)
Respond(q, code, outcome) ==
    [q EXCEPT !.pc = "done", !.resp = code, !.outcome = outcome]

\* mutant: the handler goes on with a reaction that maps to no feedback
UnmappedDrop_Never(feedback_type) == FALSE

UnmappedDrop(feedback_type) == feedback_type = "none"

\* mutant: the handler goes on with the item the lookup did not find
UntrackedDrop_Never(digest_item) == FALSE

UntrackedDrop(digest_item) == digest_item = NoItem

\* mutant: the rate limiter's answer is ignored
RateLimitDrop_Never(allowed) == FALSE

RateLimitDrop(allowed) == ~allowed

\* mutants: the duplicate guard's condition inverted, and left out
DuplicateDrop_Inverted(spamming) == ~spamming

DuplicateDrop_Never(spamming) == FALSE

DuplicateDrop(spamming) == spamming

\* handle_reaction_added from the reaction mapping to the item lookup: the
\* lines that run before the handler first reads or writes shared state are
\* one step, each later call into the store or the metrics engine is a step
\* of its own. lookup_fails: the lookup raises StoreUnavailable, which
\* nothing catches.
handle_reaction_added(q, items, lookup_fails) ==
    LET feedback_type == emoji_to_feedback_type(q.reaction)
        digest_item == get_item_by_message_ts(items, q.ts, q.channel) IN
    IF UnmappedDrop(feedback_type) THEN Respond(q, 200, "unmapped")
    ELSE IF lookup_fails THEN Respond(q, 500, "store_unavailable")
    ELSE IF UntrackedDrop(digest_item) THEN Respond(q, 200, "untracked")
    ELSE [q EXCEPT !.pc = "ratelimit", !.fb = feedback_type,
                   !.item = digest_item]

\* history: the delivery repeats one whose FeedbackEvent is already stored
Replayed(q, events) ==
    /\ q.pc = "ratelimit"
    /\ is_user_spamming(events, q.user, q.item.digest_item_id)

\* mutant: a removal is run through the pipeline of an added reaction
handle_reaction_removed_AsAdded(q) == handle_reaction_added(q, digestItems, FALSE)

handle_reaction_removed(q) == Respond(q, 200, "removed")

\* request.json of a body that is no UTF-8 JSON is a BadRequest (400)
Dispatch(q0, items, lookup_fails) ==
    LET q == [q0 EXCEPT !.dispatched = TRUE] IN
    IF q.type = "undecodable" THEN Respond(q, 400, "bad_request")
    ELSE IF q.type = "url_verification" THEN Respond(q, 200, "challenge")
    ELSE IF q.type = "event_callback"
         THEN IF q.etype = "reaction_added"
              THEN handle_reaction_added(q, items, lookup_fails)
              ELSE IF q.etype = "reaction_removed"
                   THEN handle_reaction_removed(q)
                   ELSE Respond(q, 200, "ignored")
         ELSE Respond(q, 200, "ignored")

handle_slack_event(q, body, items, lookup_fails) ==
    LET verified == verify_slack_request(signingSecret, q.headers, body, q.at) IN
    IF verified = "raise" THEN Respond(q, 500, "verify_error")
    ELSE IF verified = "false" THEN Respond(q, 403, "forbidden")
    ELSE Dispatch(q, items, lookup_fails)

Receive(r, headers, payload, lookup_fails) ==
    /\ r = nreq + 1
    /\ r <= MaxReq
    /\ nreq' = r
    /\ lookup_fails => faults < MaxFaults
    /\ LET q == handle_slack_event(Received(headers, payload, now), payload,
                                   digestItems, lookup_fails) IN
       req' = [req EXCEPT ![r] =
                  [q EXCEPT !.replay = Replayed(q, feedbackEvents)]]
    /\ faults' = IF req'[r].outcome = "store_unavailable"
                 THEN faults + 1 ELSE faults
    /\ lookup_fails => faults' # faults
    /\ UNCHANGED <<signingSecret, now, digestItems, feedbackEvents, rateCount,
                   freshTs>>
    /\ UNCHANGED distVars

\* a later call into the store fails with StoreUnavailable
StoreUnavailable(r, at) ==
    /\ req[r].pc = at
    /\ faults < MaxFaults
    /\ faults' = faults + 1
    /\ req' = [req EXCEPT ![r] = Respond(@, 500, "store_unavailable")]
    /\ UNCHANGED <<signingSecret, now, nreq, digestItems, feedbackEvents,
                   rateCount, freshTs>>
    /\ UNCHANGED distVars

CheckRateLimit(r) ==
    /\ req[r].pc = "ratelimit"
    /\ LET allowed == RateAllowed(rateCount, req[r].user) IN
       /\ rateCount' = check_rate_limit(rateCount, req[r].user)
       /\ req' = [req EXCEPT ![r] =
                    LET q == [@ EXCEPT !.touched = IF rateCount' # rateCount
                                                   THEN @ \cup {"rate"} ELSE @] IN
                    IF RateLimitDrop(allowed) THEN Respond(q, 200, "ratelimited")
                    ELSE [q EXCEPT !.pc = "dupcheck"]]
    /\ UNCHANGED <<signingSecret, now, nreq, digestItems, feedbackEvents,
                   faults, freshTs>>
    /\ UNCHANGED distVars

CheckDuplicate(r) ==
    /\ req[r].pc = "dupcheck"
    /\ LET spamming == is_user_spamming(feedbackEvents, req[r].user,
                                        req[r].item.digest_item_id) IN
       req' = [req EXCEPT ![r] =
                  IF DuplicateDrop(spamming) THEN Respond(@, 200, "duplicate")
                  ELSE [@ EXCEPT !.pc = "store"]]
    /\ UNCHANGED <<signingSecret, now, nreq, digestItems, feedbackEvents,
                   rateCount, faults, freshTs>>
    /\ UNCHANGED distVars

FeedbackEvent(q) ==
    [digest_item_id |-> q.item.digest_item_id, user_id |-> q.user,
     team |-> q.item.team, feedback_type |-> q.fb]

StoreFeedback(r) ==
    /\ req[r].pc = "store"
    /\ LET feedback_event == FeedbackEvent(req[r]) IN
       /\ feedbackEvents' = store_feedback(feedbackEvents, feedback_event)
       /\ req' = [req EXCEPT ![r] =
                    IF StoreFeedbackConflict(feedbackEvents, feedback_event)
                    THEN Respond(@, 500, "conflict")
                    ELSE Respond([@ EXCEPT !.touched = @ \cup {"event"}],
                                 200, "stored")]
    /\ UNCHANGED <<signingSecret, now, nreq, digestItems, rateCount,
                   faults, freshTs>>
    /\ UNCHANGED distVars

-----------------------------------------------------------------------------
(* The environment of the webhook *)

TeamOf(id) == IF id = "I3" THEN "platform" ELSE "mechanical"

\* a distribute run posts an item and records the message it became
DistributorStoresItem(id) ==
    /\ freshTs # {}
    /\ LET ts == CHOOSE t \in freshTs : TRUE IN
       /\ freshTs' = freshTs \ {ts}
       /\ digestItems' = store_digest_item(digestItems,
              [digest_item_id |-> id, team |-> TeamOf(id),
               slack_message_ts |-> ts, slack_channel_id |-> DIGEST_CHANNEL])
    /\ UNCHANGED <<signingSecret, now, req, nreq, feedbackEvents, rateCount,
                   faults>>
    /\ UNCHANGED distVars

ClockTick ==
    /\ now < Now0 + MaxTicks
    /\ now' = now + 1
    /\ UNCHANGED <<signingSecret, req, nreq, digestItems, feedbackEvents,
                   rateCount, faults, freshTs>>
    /\ UNCHANGED distVars

-----------------------------------------------------------------------------
(* The distributor: DigestDistributor.distribute and the methods it calls *)

HIGH_THRESHOLD == 7
LOW_THRESHOLD == 3
Confidences == {1, 3, 7}

Teams == <<"mechanical", "platform">>
Leadership == <<"L1">>
TeamChannel(team) == IF team = "mechanical" THEN "C_MECH" ELSE "C_PLAT"

\* the outcomes of one call of the message-posting collaborator
PostOutcomes == {"ok", "notok", "raise"}

\* the i-th item of the team analyses, as the formatter hands it over
ItemNames == <<"I1", "I2", "I3", "I4", "I5">>

ItemMsg(i, confidence) ==
    [digest_item_id |-> ItemNames[i], team |-> Teams[((i - 1) % 2) + 1],
     confidence |-> confidence]

\* format_digest_items: the items in generation order, by confidence
HighBucket(item_msg) == item_msg.confidence >= HIGH_THRESHOLD

LowBucket(item_msg) ==
    /\ item_msg.confidence >= LOW_THRESHOLD
    /\ item_msg.confidence < HIGH_THRESHOLD

ExcludedBucket(item_msg) == item_msg.confidence < LOW_THRESHOLD

format_digest_items(items) ==
    [high_conf |-> SelectSeq(items, HighBucket),
     low_conf |-> SelectSeq(items, LowBucket),
     excluded |-> SelectSeq(items, ExcludedBucket)]

NoResult == [ok |-> FALSE, ts |-> 0, error |-> "none"]

\* what post_message and send_dm return: the message's ts when accepted
PostResult(outcome, ts) ==
    IF outcome = "ok" THEN [ok |-> TRUE, ts |-> ts, error |-> "none"]
    ELSE [ok |-> FALSE, ts |-> 0, error |-> "post_failed"]

MainResults0 == [header |-> NoResult, items |-> <<>>, items_stored |-> 0]

Results0 ==
    [run_id |-> "run", main_post |-> NoResult, item_posts |-> <<>>,
     team_posts |-> <<>>, dms |-> <<>>, errors |-> <<>>, items_stored |-> 0]

\* pc: the position in distribute; idx: the position in the loop at pc;
\* main: results of _post_main_digest_with_items; results: those of
\* distribute; posts: every call of the collaborator, in order; written: the
\* DigestItems this run wrote to the store; store_errors: the items whose
\* store write raised
DistStart ==
    [pc |-> "start", idx |-> 0, main |-> MainResults0, results |-> Results0,
     posts |-> <<>>, written |-> <<>>, store_errors |-> <<>>]

\* no run in progress
DistIdle == [pc |-> "idle"]

NoCfg == [items |-> <<>>, channels |-> {}, feedback_store |-> FALSE]

Buckets == format_digest_items(cfg.items)

Posted(kind, target, item, outcome) ==
    [kind |-> kind, target |-> target, item |-> item, outcome |-> outcome]

NextTs == Len(dist.posts) + 1

\* without the except clause the exception leaves distribute
MainDigestFailed_Propagates(d) == [d EXCEPT !.pc = "raised"]

\* the except clause of distribute around the main digest (lines 92-95):
\* what _post_main_digest_with_items had gathered is lost
MainDigestFailed(d) ==
    [d EXCEPT !.pc = "teams", !.idx = 1,
              !.results.errors = Append(@, "Failed to post main digest")]

StartDistribute ==
    /\ dist.pc = "start"
    /\ dist' = [dist EXCEPT !.pc = "header", !.results = Results0,
                            !.main = MainResults0]
    /\ UNCHANGED <<cfg, whVars>>

PostHeader(outcome) ==
    /\ dist.pc = "header"
    /\ LET d == [dist EXCEPT !.posts = Append(@,
                     Posted("header", DIGEST_CHANNEL, "none", outcome))] IN
       dist' = IF outcome = "raise" THEN MainDigestFailed(d)
               ELSE [d EXCEPT !.pc = "high", !.idx = 1,
                              !.main.header = PostResult(outcome, NextTs)]
    /\ UNCHANGED <<cfg, whVars>>

\* _store_digest_item: the record written for a posted item
DigestItemOf(item_msg, message_ts, channel_id) ==
    [digest_item_id |-> item_msg.digest_item_id, team |-> item_msg.team,
     slack_message_ts |-> message_ts, slack_channel_id |-> channel_id]

\* the import of the feedback package succeeded wherever a store is passed in
FEEDBACK_AVAILABLE == TRUE

\* the write no longer asks whether the post was accepted
StoresItem_Always(result) == cfg.feedback_store

StoresItem(result) == cfg.feedback_store /\ result.ok

\* mutant: the entry reports every post as accepted
ItemEntry_AlwaysOk(item_msg, result, section) ==
    [digest_item_id |-> item_msg.digest_item_id, message_ts |-> result.ts,
     ok |-> TRUE, confidence |-> item_msg.confidence, section |-> section]

ItemEntry(item_msg, result, section) ==
    [digest_item_id |-> item_msg.digest_item_id, message_ts |-> result.ts,
     ok |-> result.ok, confidence |-> item_msg.confidence,
     section |-> section]

\* one iteration of the loops over high_conf and low_conf (lines 156-177 and
\* 191-211): post, store, count, record; an exception of the post or of the
\* store write ends the iteration with a warning
PostItem(d0, item_msg, section, outcome, store_fails) ==
    LET d == [d0 EXCEPT !.idx = @ + 1,
                        !.posts = Append(@, Posted("item", DIGEST_CHANNEL,
                                         item_msg.digest_item_id, outcome))]
        result == PostResult(outcome, Len(d0.posts) + 1)
        entry == ItemEntry(item_msg, result, section) IN
    IF outcome = "raise" THEN d
    ELSE IF StoresItem(result)
         THEN IF store_fails
              THEN [d EXCEPT !.store_errors =
                                 Append(@, item_msg.digest_item_id)]
              ELSE IF ~(cfg.feedback_store /\ FEEDBACK_AVAILABLE)
              THEN [d EXCEPT !.main.items_stored = @ + 1,
                             !.main.items = Append(@, entry)]
              ELSE [d EXCEPT !.written = Append(@,
                                 DigestItemOf(item_msg, result.ts, DIGEST_CHANNEL)),
                             !.main.items_stored = @ + 1,
                             !.main.items = Append(@, entry)]
         ELSE [d EXCEPT !.main.items = Append(@, entry)]

WrittenNow(d) ==
    IF Len(d.written) > Len(dist.written)
    THEN store_digest_item(digestItems, d.written[Len(d.written)])
    ELSE digestItems

PostHighItem(outcome, store_fails) ==
    /\ dist.pc = "high"
    /\ dist.idx <= Len(Buckets.high_conf)
    /\ store_fails => StoresItem(PostResult(outcome, 0))
    /\ dist' = PostItem(dist, Buckets.high_conf[dist.idx], "main", outcome,
                        store_fails)
    /\ digestItems' = WrittenNow(dist')
    /\ UNCHANGED <<cfg, signingSecret, now, req, nreq, feedbackEvents,
                   rateCount, faults, freshTs>>

PostDivider(outcome) ==
    /\ dist.pc = "high"
    /\ dist.idx > Len(Buckets.high_conf)
    /\ Buckets.low_conf # <<>>
    /\ LET d == [dist EXCEPT !.posts = Append(@,
                     Posted("divider", DIGEST_CHANNEL, "none", outcome))] IN
       dist' = IF outcome = "raise" THEN MainDigestFailed(d)
               ELSE [d EXCEPT !.pc = "low", !.idx = 1]
    /\ UNCHANGED <<cfg, whVars>>

PostLowItem(outcome, store_fails) ==
    /\ dist.pc = "low"
    /\ dist.idx <= Len(Buckets.low_conf)
    /\ store_fails => StoresItem(PostResult(outcome, 0))
    /\ dist' = PostItem(dist, Buckets.low_conf[dist.idx], "fyi", outcome,
                        store_fails)
    /\ digestItems' = WrittenNow(dist')
    /\ UNCHANGED <<cfg, signingSecret, now, req, nreq, feedbackEvents,
                   rateCount, faults, freshTs>>

\* _post_main_digest_with_items returns; distribute copies its results
MainDigestPosted ==
    /\ \/ dist.pc = "high" /\ dist.idx > Len(Buckets.high_conf)
                           /\ Buckets.low_conf = <<>>
       \/ dist.pc = "low" /\ dist.idx > Len(Buckets.low_conf)
    /\ dist' = [dist EXCEPT !.pc = "teams", !.idx = 1,
                            !.results.main_post = dist.main.header,
                            !.results.item_posts = dist.main.items,
                            !.results.items_stored = dist.main.items_stored]
    /\ UNCHANGED <<cfg, whVars>>

NoChannel == [ok |-> FALSE, ts |-> 0, error |-> "no_channel_configured"]

\* _post_team_details inside the loop of distribute (lines 98-106)
PostTeam(outcome) ==
    /\ dist.pc = "teams"
    /\ dist.idx <= Len(Teams)
    /\ LET team_name == Teams[dist.idx]
           d == [dist EXCEPT !.idx = @ + 1] IN
       IF team_name \notin cfg.channels
       THEN /\ outcome = "notok"
            /\ dist' = [d EXCEPT !.results.team_posts =
                           Append(@, [team |-> team_name, result |-> NoChannel])]
       ELSE LET p == [d EXCEPT !.posts = Append(@,
                         Posted("team", TeamChannel(team_name), "none", outcome))] IN
            dist' = IF outcome = "raise"
                    THEN [p EXCEPT !.results.errors =
                             Append(@, "Failed to post to " \o team_name)]
                    ELSE [p EXCEPT !.results.team_posts =
                             Append(@, [team |-> team_name,
                                        result |-> PostResult(outcome, NextTs)])]
    /\ UNCHANGED <<cfg, whVars>>

\* _send_leadership_dm inside the loop of distribute (lines 109-117)
SendLeadershipDm(outcome) ==
    /\ dist.pc = "teams"
    /\ dist.idx > Len(Teams)
    /\ dist.idx <= Len(Teams) + Len(Leadership)
    /\ LET user_id == Leadership[dist.idx - Len(Teams)]
           d == [dist EXCEPT !.idx = @ + 1,
                             !.posts = Append(@,
                                 Posted("dm", user_id, "none", outcome))] IN
       dist' = IF outcome = "raise"
               THEN [d EXCEPT !.results.errors =
                                 Append(@, "Failed to DM " \o user_id)]
               ELSE [d EXCEPT !.results.dms =
                        Append(@, [user |-> user_id,
                                   result |-> PostResult(outcome, NextTs)])]
    /\ UNCHANGED <<cfg, whVars>>

ReturnResults ==
    /\ dist.pc = "teams"
    /\ dist.idx > Len(Teams) + Len(Leadership)
    /\ dist' = [dist EXCEPT !.pc = "done"]
    /\ UNCHANGED <<cfg, whVars>>

-----------------------------------------------------------------------------
(* Specification of the ingestion pipeline: verified reaction_added          *)
(* deliveries, processed concurrently.                                       *)

Str1000 == <<"1", "0", "0", "0">>

TrackedInit ==
    {[digest_item_id |-> "I1", team |-> "mechanical",
      slack_message_ts |-> "T1", slack_channel_id |-> DIGEST_CHANNEL],
     [digest_item_id |-> "I2", team |-> "mechanical",
      slack_message_ts |-> "T2", slack_channel_id |-> DIGEST_CHANNEL]}

InitStore ==
    /\ digestItems = TrackedInit
    /\ feedbackEvents = <<>>
    /\ rateCount = [u \in Users |-> 0]
    /\ faults = 0
    /\ freshTs = {"T3"}

Init ==
    /\ signingSecret = "s3cr3t"
    /\ now = Now0
    /\ req = [r \in 1..MaxReq |-> Idle]
    /\ nreq = 0
    /\ InitStore
    /\ cfg = NoCfg
    /\ dist = DistIdle

ReactionAdded ==
    {Payload("event_callback", "reaction_added", u, e, DIGEST_CHANNEL, t) :
        u \in Users, e \in Reactions, t \in {"T1", "T2", "T3"}}

SignedHeaders(payload) ==
    [timestamp |-> Str1000,
     signature |-> ExpectedSig(signingSecret, Str1000, payload)]

\* The two users are interchangeable, and so are the two messages tracked
\* from the start: of the runs that differ only by exchanging them, the one
\* is kept in which U1 is heard of before U2 and T1 before T2.
FirstOfItsKind(payload) ==
    /\ payload.user = "U2" => \E r \in 1..nreq : req[r].user = "U1"
    /\ payload.ts = "T2" => \E r \in 1..nreq : req[r].ts = "T1"

ReceiveReaction ==
    \E payload \in {p \in ReactionAdded : FirstOfItsKind(p)} :
        Receive(nreq + 1, SignedHeaders(payload), payload, FALSE)

LookupFails ==
    \E payload \in {p \in ReactionAdded : FirstOfItsKind(p)} :
        Receive(nreq + 1, SignedHeaders(payload), payload, TRUE)

StoreFails ==
    \E r \in 1..MaxReq, at \in {"dupcheck", "store"} :
        StoreUnavailable(r, at)

RateLimit == \E r \in 1..MaxReq : CheckRateLimit(r)
Duplicate == \E r \in 1..MaxReq : CheckDuplicate(r)
Store == \E r \in 1..MaxReq : StoreFeedback(r)
ItemPosted == \E id \in {"I3"} : DistributorStoresItem(id)

Next ==
    \/ ReceiveReaction
    \/ RateLimit
    \/ Duplicate
    \/ Store
    \/ ItemPosted

Spec == Init /\ [][Next]_vars

\* the same pipeline with the store failing
NextFaulty == Next \/ LookupFails \/ StoreFails

SpecFaulty == Init /\ [][NextFaulty]_vars

\* the same pipeline with users also taking reactions back
ReactionRemoved ==
    {Payload("event_callback", "reaction_removed", u, e, DIGEST_CHANNEL, "T1") :
        u \in Users, e \in Reactions}

ReceiveRemoved ==
    \E payload \in {p \in ReactionRemoved : FirstOfItsKind(p)} :
        Receive(nreq + 1, SignedHeaders(payload), payload, FALSE)

NextRemoved == Next \/ ReceiveRemoved

SpecRemoved == Init /\ [][NextRemoved]_vars

-----------------------------------------------------------------------------
(* Specification of the endpoint's authentication and dispatch: requests of  *)
(* every kind, with good and bad headers, with and without a signing secret. *)

Str700 == <<"7", "0", "0">>
Str1301 == <<"1", "3", "0", "1">>

TimestampHeaders == {<<>>, <<"x">>, Str700, Str1301}

AnyPayload ==
    {Payload("url_verification", "none", "none", "none", "none", "none"),
     Payload("undecodable", "none", "none", "none", "none", "none"),
     Payload("app_rate_limited", "none", "none", "none", "none", "none"),
     Payload("event_callback", "message", "U1", "none", DIGEST_CHANNEL, "T1")}
    \cup {Payload("event_callback", e, "U1", "white_check_mark",
                  DIGEST_CHANNEL, "T1") :
             e \in {"reaction_added", "reaction_removed"}}

AnyHeaders(payload) ==
    {[timestamp |-> t, signature |-> ExpectedSig(k, t, b)] :
        t \in TimestampHeaders, k \in {"s3cr3t", "guess"},
        b \in {payload, Encode(get_data_as_text(payload))}}
    \cup {[timestamp |-> t, signature |-> NonAsciiSignature] :
             t \in TimestampHeaders}

InitAuth ==
    /\ signingSecret \in {"", "s3cr3t"}
    /\ now = Now0
    /\ req = [r \in 1..MaxReq |-> Idle]
    /\ nreq = 0
    /\ InitStore
    /\ cfg = NoCfg
    /\ dist = DistIdle

ReceiveAny ==
    \E payload \in AnyPayload :
        \E headers \in AnyHeaders(payload) :
            /\ nreq < MaxAuthReq
            /\ Receive(nreq + 1, headers, payload, FALSE)

NextAuth ==
    \/ ReceiveAny
    \/ RateLimit
    \/ Duplicate
    \/ Store
    \/ ClockTick

SpecAuth == InitAuth /\ [][NextAuth]_vars

-----------------------------------------------------------------------------
(* Specification of one distribute run, the collaborators failing at will *)

MaxItems == 2

RECURSIVE ItemLists(_)
ItemLists(n) ==
    IF n = 0 THEN {<<>>}
    ELSE ItemLists(n - 1) \cup
         {Append(l, ItemMsg(n, c)) : l \in {x \in ItemLists(n - 1) : Len(x) = n - 1},
                                     c \in Confidences}

InitDist ==
    /\ signingSecret = "s3cr3t"
    /\ now = Now0
    /\ req = [r \in 1..MaxReq |-> Idle]
    /\ nreq = 0
    /\ digestItems = {}
    /\ feedbackEvents = <<>>
    /\ rateCount = [u \in Users |-> 0]
    /\ faults = 0
    /\ freshTs = {}
    /\ cfg \in [items : ItemLists(MaxItems),
                channels : {{"mechanical", "platform"}, {"platform"}},
                feedback_store : BOOLEAN]
    /\ dist = DistStart

Header == \E o \in PostOutcomes : PostHeader(o)
HighItem == \E o \in PostOutcomes, f \in BOOLEAN : PostHighItem(o, f)
Divider == \E o \in PostOutcomes : PostDivider(o)
LowItem == \E o \in PostOutcomes, f \in BOOLEAN : PostLowItem(o, f)
Team == \E o \in PostOutcomes : PostTeam(o)
Dm == \E o \in PostOutcomes : SendLeadershipDm(o)

NextDist ==
    \/ StartDistribute
    \/ Header
    \/ HighItem
    \/ Divider
    \/ LowItem
    \/ MainDigestPosted
    \/ Team
    \/ Dm
    \/ ReturnResults

SpecDist == InitDist /\ [][NextDist]_vars

\* the event loop runs the coroutine of distribute to its end
SpecDistFair == SpecDist /\ WF_vars(NextDist)

-----------------------------------------------------------------------------
(* Properties of the ingestion pipeline *)

Received_ == {r \in 1..MaxReq : req[r].pc # "idle"}
Finished == {r \in 1..MaxReq : req[r].pc = "done"}
PairCount(u, i) == Cardinality(EventsOf(feedbackEvents, u, i))

\* the deliveries of user u that resolved to item i
DeliveriesOf(u, i) ==
    {r \in Received_ : req[r].user = u /\ req[r].item.digest_item_id = i}

\* C1: at most one FeedbackEvent is ever stored for a (user, item) pair, and
\* once every concurrent delivery for the pair has been processed, one of
\* them within the user's rate limit, exactly one FeedbackEvent exists for it.
C1_ExactlyOneEventPerPair ==
    \A u \in Users, i \in ItemIds :
        /\ PairCount(u, i) <= 1
        /\ ( /\ DeliveriesOf(u, i) # {}
             /\ DeliveriesOf(u, i) \subseteq Finished
             /\ \E r \in DeliveriesOf(u, i) : req[r].outcome # "ratelimited" )
           => PairCount(u, i) = 1

\* two deliveries of one pair both passed the duplicate check before either
\* wrote: one write stored the event, the store refused the other
C1_Witness ==
    \E r1, r2 \in Finished :
        /\ r1 # r2
        /\ req[r1].user = req[r2].user
        /\ req[r1].item = req[r2].item
        /\ req[r1].outcome = "stored"
        /\ req[r2].outcome = "conflict"
        /\ PairCount(req[r1].user, req[r1].item.digest_item_id) = 1

\* the deliveries of user u with a mapped reaction on a tracked message
ValidOf(u) == {r \in Received_ : req[r].user = u /\ req[r].item # NoItem}
StoredOf(u) == {r \in ValidOf(u) : req[r].outcome = "stored"}
DistinctItems(R) == \A r1, r2 \in R : r1 # r2 => req[r1].item # req[r2].item
Min(a, b) == IF a < b THEN a ELSE b

\* C2: of n deliveries of one user in one window, on n distinct tracked items
\* with mapped reactions, exactly min(n, RATE_LIMIT) end with a stored
\* FeedbackEvent and the others are dropped as rate-limited: K of K+1.
C2_ExactlyKAccepted ==
    \A u \in Users :
        ( ValidOf(u) \subseteq Finished /\ DistinctItems(ValidOf(u)) )
        => /\ Cardinality(StoredOf(u)) = Min(Cardinality(ValidOf(u)), RATE_LIMIT)
           /\ \A r \in ValidOf(u) \ StoredOf(u) :
                 req[r].outcome = "ratelimited" /\ req[r].resp = 200

C2_Witness ==
    \E u \in Users :
        /\ ValidOf(u) \subseteq Finished
        /\ DistinctItems(ValidOf(u))
        /\ Cardinality(ValidOf(u)) = RATE_LIMIT + 1
        /\ Cardinality(StoredOf(u)) = RATE_LIMIT

\* C6: every request that passed signature verification is answered 200,
\* and a delivery that met StoreUnavailable stored nothing.
C6_VerifiedAlways200 ==
    \A r \in Finished :
        /\ req[r].dispatched => req[r].resp = 200
        /\ req[r].outcome = "store_unavailable" => "event" \notin req[r].touched

\* C7: with a secret configured, a request whose timestamp header is absent
\* or not a number is answered 403, before any dispatch or store access.
C7_BadTimestampRejected ==
    \A r \in Finished :
        (signingSecret # "" /\ ~ParseInt(req[r].headers.timestamp).ok)
        => /\ req[r].resp = 403
           /\ ~req[r].dispatched
           /\ req[r].touched = {}

\* C8: a reaction_added delivery that repeats an already ingested one is
\* dropped before the write (rate-limited or duplicate, answered 200), and
\* the pair keeps exactly one FeedbackEvent.
C8_ReplayStoresNothing ==
    \A r \in Received_ :
        req[r].replay
        => /\ req[r].pc \in {"ratelimit", "dupcheck", "done"}
           /\ req[r].pc = "done"
              => /\ req[r].outcome \in {"ratelimited", "duplicate"}
                 /\ req[r].resp = 200
           /\ "event" \notin req[r].touched
           /\ PairCount(req[r].user, req[r].item.digest_item_id) = 1

C8_Witness ==
    \E r \in Finished :
        /\ req[r].replay
        /\ req[r].outcome = "duplicate"
        /\ \E r0 \in Finished : /\ r0 < r
                                /\ req[r0].outcome = "stored"
                                /\ req[r0].user = req[r].user
                                /\ req[r0].reaction = req[r].reaction
                                /\ req[r0].ts = req[r].ts

\* C9: every stored FeedbackEvent carries the id of a DigestItem in the store,
\* the one its delivery resolved from (channel, message ts) before writing; a
\* reaction on a message no DigestItem is stored for stores nothing.
C9_EventsReferenceStoredItems ==
    /\ \A k \in 1..Len(feedbackEvents) :
          \E d \in digestItems :
              d.digest_item_id = feedbackEvents[k].digest_item_id
    /\ \A r \in Received_ :
          /\ "event" \in req[r].touched
             => \E d \in digestItems : /\ d = req[r].item
                                       /\ d.slack_message_ts = req[r].ts
                                       /\ d.slack_channel_id = req[r].channel
          /\ req[r].outcome = "untracked"
             => req[r].item = NoItem /\ req[r].touched = {}
          /\ (req[r].pc # "done" \/ req[r].outcome = "stored")
             => req[r].item # NoItem

\* a reaction on T3 was dropped while T3 was untracked; after the item was
\* posted a reaction on T3 was stored
C9_Witness ==
    \E r1, r2 \in Finished :
        /\ req[r1].ts = "T3" /\ req[r1].outcome = "untracked"
        /\ req[r2].ts = "T3" /\ req[r2].outcome = "stored"

Drops == {"unmapped", "untracked", "ratelimited", "duplicate"}

\* C10: a delivery dropped at any step changed neither the FeedbackEvents,
\* nor the DigestItems, nor the rate-limit state.
C10_DropsChangeNothing ==
    \A r \in Finished : req[r].outcome \in Drops => req[r].touched = {}

-----------------------------------------------------------------------------
(* Properties of a distribute run *)

Returned == dist.pc = "done"
FailedPosts == {k \in 1..Len(dist.posts) : dist.posts[k].outcome # "ok"}
ItemPostsOk ==
    {k \in 1..Len(dist.results.item_posts) : dist.results.item_posts[k].ok}
PostableItems ==
    {Buckets.high_conf[k].digest_item_id : k \in 1..Len(Buckets.high_conf)}
    \cup {Buckets.low_conf[k].digest_item_id : k \in 1..Len(Buckets.low_conf)}
Attempted(kind, target, item) ==
    \E k \in 1..Len(dist.posts) : /\ dist.posts[k].kind = kind
                                  /\ dist.posts[k].target = target
                                  /\ dist.posts[k].item = item

\* C3: the returned errors list has an entry for every failed post, and when
\* the only failure of a run is one item post of N (the store working), the
\* result has N-1 successful item posts, one error and items_stored = N-1.
C3_EveryFailureCollected ==
    Returned =>
        /\ Len(dist.results.errors) >= Cardinality(FailedPosts)
        /\ ( /\ cfg.feedback_store
             /\ \E k \in FailedPosts : /\ FailedPosts = {k}
                                       /\ dist.posts[k].kind = "item"
             /\ Len(dist.written) = Cardinality(PostableItems) - 1 )
           => /\ Cardinality(ItemPostsOk) = Cardinality(PostableItems) - 1
              /\ Len(dist.results.errors) = 1
              /\ dist.results.items_stored = Cardinality(PostableItems) - 1

\* C4: the items_stored of the returned result is the number of DigestItems
\* the run wrote to the store.
C4_ItemsStoredCountsWrites ==
    Returned => dist.results.items_stored = Len(dist.written)

\* C5: whatever fails, every later step is attempted: each item of the high
\* and low buckets is posted, the divider is posted when there are low items,
\* each team with a channel gets its post and each leadership user the DM.
C5_StepsFaultIsolated ==
    Returned =>
        /\ \A i \in PostableItems : Attempted("item", DIGEST_CHANNEL, i)
        /\ Buckets.low_conf # <<>> => Attempted("divider", DIGEST_CHANNEL, "none")
        /\ \A k \in 1..Len(Teams) :
              Teams[k] \in cfg.channels
              => Attempted("team", TeamChannel(Teams[k]), "none")
        /\ \A k \in 1..Len(Leadership) : Attempted("dm", Leadership[k], "none")

\* the ids of the items of a bucket, and the indexes of a sequence
IdsOf(bucket) == {bucket[k].digest_item_id : k \in 1..Len(bucket)}
ItemPostOk(p) ==
    /\ dist.posts[p].kind = "item"
    /\ dist.posts[p].outcome = "ok"
WrittenFor(i) == {k \in 1..Len(dist.written) : dist.written[k].digest_item_id = i}
StoreRaisedFor(i) ==
    \E k \in 1..Len(dist.store_errors) : dist.store_errors[k] = i

\* what C11 says of the DigestItems written, whatever the store does: every
\* write follows an ok post of its item and carries that post's channel and
\* ts, nothing is written for an excluded item, at most one record per item,
\* and the store holds exactly the records written
WritesFollowOkPosts ==
    /\ \A k \in 1..Len(dist.written) :
          \E p \in 1..Len(dist.posts) :
              /\ ItemPostOk(p)
              /\ dist.posts[p].item = dist.written[k].digest_item_id
              /\ dist.written[k].slack_message_ts = p
              /\ dist.written[k].slack_channel_id = dist.posts[p].target
    /\ \A i \in IdsOf(Buckets.excluded) : WrittenFor(i) = {}
    /\ \A i \in IdsOf(cfg.items) : Cardinality(WrittenFor(i)) <= 1
    /\ digestItems = {dist.written[k] : k \in 1..Len(dist.written)}

HeaderPostOk ==
    /\ Len(dist.posts) >= 1
    /\ dist.posts[1].kind = "header"
    /\ dist.posts[1].outcome = "ok"
ItemAttempts(i) ==
    {k \in 1..Len(dist.posts) : /\ dist.posts[k].kind = "item"
                                /\ dist.posts[k].item = i}

\* C12: in a run whose header post succeeded, every item of the high and low
\* buckets gets exactly one post attempt, whichever other posts fail, and no
\* item is posted twice.
C12_EachItemPostedOnce ==
    (Returned /\ HeaderPostOk) =>
        \A i \in PostableItems : Cardinality(ItemAttempts(i)) = 1

PostsOfKind(kind) == {k \in 1..Len(dist.posts) : dist.posts[k].kind = kind}
ItemPostsOf(bucket) ==
    {k \in PostsOfKind("item") : dist.posts[k].item \in IdsOf(bucket)}

\* C13: the header post is attempted before any item post, the posts of the
\* high items precede the divider, those of the low items follow it, and the
\* divider is posted exactly once when the low bucket is non-empty and not at
\* all when it is empty.
C13_MainChannelOrder ==
    /\ \A k \in PostsOfKind("item") \cup PostsOfKind("divider") :
          \E h \in PostsOfKind("header") : h < k
    /\ \A k \in ItemPostsOf(Buckets.high_conf), d \in PostsOfKind("divider") :
          k < d
    /\ \A k \in ItemPostsOf(Buckets.low_conf) :
          \E d \in PostsOfKind("divider") : d < k
    /\ Cardinality(PostsOfKind("divider")) <= 1
    /\ Buckets.low_conf = <<>> => PostsOfKind("divider") = {}
    /\ (Returned /\ Buckets.low_conf # <<>>)
          => Cardinality(PostsOfKind("divider")) = 1

ErrorsNaming(team_name) ==
    {k \in 1..Len(dist.results.errors) :
        dist.results.errors[k] = "Failed to post to " \o team_name}

\* C14: for a team with analysis data but no configured channel, distribute
\* posts no message for the team, records the omission in the errors of the
\* result, and still processes every other team and every leadership
\* recipient.
C14_NoChannelRecordedAsError ==
    Returned =>
        \A k \in 1..Len(Teams) :
            Teams[k] \notin cfg.channels =>
                /\ ~Attempted("team", TeamChannel(Teams[k]), "none")
                /\ ErrorsNaming(Teams[k]) # {}
                /\ \A j \in 1..Len(Teams) :
                      Teams[j] \in cfg.channels
                      => Attempted("team", TeamChannel(Teams[j]), "none")
                /\ \A j \in 1..Len(Leadership) :
                      Attempted("dm", Leadership[j], "none")

\* the items a returned result lists: item_posts is its only field of items
ResultItems ==
    {dist.results.item_posts[k].digest_item_id :
        k \in 1..Len(dist.results.item_posts)}

\* C15: an item of the excluded bucket is never posted and never stored as a
\* DigestItem, and the result distribute returns includes it.
C15_ExcludedOnlyInResult ==
    \A i \in IdsOf(Buckets.excluded) :
        /\ ItemAttempts(i) = {}
        /\ WrittenFor(i) = {}
        /\ \A d \in digestItems : d.digest_item_id # i
        /\ Returned => i \in ResultItems

RaisedPosts(kind) ==
    {k \in PostsOfKind(kind) : dist.posts[k].outcome = "raise"}

\* C16: whatever the message-posting collaborator and the Feedback Store do
\* (exceptions, not-ok results), distribute ends by returning a result that
\* holds the run identifier; no exception leaves it.
C16_AlwaysReturnsResult ==
    <>(dist.pc = "done" /\ dist.results.run_id = "run")

C16_Witness ==
    /\ Returned
    /\ dist.results.run_id = "run"
    /\ RaisedPosts("item") # {}
    /\ dist.store_errors # <<>>
    /\ RaisedPosts("team") # {}
    /\ RaisedPosts("dm") # {}

\* the body of a received request, and what the verifier says of it
PayloadOf(q) == Payload(q.type, q.etype, q.user, q.reaction, q.channel, q.ts)
Verification(q) ==
    verify_slack_request(signingSecret, q.headers, PayloadOf(q), q.at)

\* C17: a request that fails signature verification is answered 403 with no
\* side effect: no dispatch, no touch of the rate-limit state, of a
\* FeedbackEvent or of a DigestItem, whatever its payload.
C17_UnverifiedRejectedUntouched ==
    \A r \in Received_ :
        Verification(req[r]) # "true"
        => /\ req[r].pc = "done"
           /\ req[r].resp = 403
           /\ ~req[r].dispatched
           /\ req[r].touched = {}
           /\ req[r].fb = "none" /\ req[r].item = NoItem

\* C19: with a secret and a numeric timestamp header, the request is taken as
\* verified if and only if its signature is 'v0=' followed by the HMAC over
\* 'v0:{timestamp}:{body}' and the timestamp is within 300 seconds of the
\* time of receipt; with no secret every request is.
C19_VerifiedIffSignedAndFresh ==
    \A r \in Received_ :
        LET q == req[r]
            p == ParseInt(q.headers.timestamp) IN
        /\ signingSecret = "" => q.dispatched
        /\ (signingSecret # "" /\ p.ok)
           => (q.dispatched
               <=> /\ q.headers.signature =
                         <<"v0=", HmacSha256(signingSecret,
                                             <<"v0", q.headers.timestamp,
                                               PayloadOf(q)>>)>>
                   /\ Abs(q.at - p.val) <= 300)

IsPrefix(s, t) == Len(s) <= Len(t) /\ SubSeq(t, 1, Len(s)) = s
RemovedRequests == {r \in Received_ : req[r].etype = "reaction_removed"}
AddedStoring(ev) ==
    {r \in Received_ : /\ req[r].etype = "reaction_added"
                       /\ "event" \in req[r].touched
                       /\ FeedbackEvent(req[r]) = ev}

\* C18: a reaction_removed event is acknowledged without touching anything,
\* every stored FeedbackEvent is the one a reaction_added event produced, and
\* no step deletes or changes a stored FeedbackEvent.
C18_RemovedNeverMutates ==
    /\ [](/\ \A r \in RemovedRequests : /\ req[r].pc = "done"
                                         /\ req[r].resp = 200
                                         /\ req[r].touched = {}
          /\ \A k \in 1..Len(feedbackEvents) :
                AddedStoring(feedbackEvents[k]) # {})
    /\ [][/\ IsPrefix(feedbackEvents, feedbackEvents')
          /\ (\E r \in 1..MaxReq : /\ req[r].pc = "idle"
                                   /\ req'[r].etype = "reaction_removed")
             => /\ feedbackEvents' = feedbackEvents
                /\ rateCount' = rateCount
                /\ digestItems' = digestItems]_vars

C18_Witness ==
    \E r \in RemovedRequests, a \in Received_ :
        /\ a < r
        /\ req[a].outcome = "stored"
        /\ req[r].user = req[a].user
        /\ req[r].ts = req[a].ts
        /\ req[r].reaction = req[a].reaction
        /\ Len(feedbackEvents) = 1

EarlyDrops == {r \in Finished : req[r].outcome \in {"unmapped", "untracked"}}
Counted(u) == {r \in Received_ : req[r].user = u /\ "rate" \in req[r].touched}

\* C20: a reaction_added dropped as unmapped or untracked never reaches the
\* rate-limit check: the user's count is made of mapped reactions on tracked
\* messages only, and a reaction is rate-limited only when the user has used
\* the whole allowance on such reactions.
C20_EarlyDropsKeepAllowance ==
    /\ \A r \in EarlyDrops : req[r].touched = {} /\ req[r].resp = 200
    /\ \A u \in Users :
          /\ rateCount[u] = Cardinality(Counted(u))
          /\ \A r \in Counted(u) : /\ req[r].fb # "none"
                                    /\ req[r].item # NoItem
    /\ \A r \in Finished :
          req[r].outcome = "ratelimited"
          => Cardinality(Counted(req[r].user) \ {r}) >= RATE_LIMIT

C20_Witness ==
    \E r1, r2, r3 \in Finished :
        /\ r1 < r2 /\ r2 < r3
        /\ req[r1].user = req[r2].user /\ req[r2].user = req[r3].user
        /\ r1 \in EarlyDrops
        /\ req[r2].outcome = "stored"
        /\ req[r3].outcome = "stored"

MainDigestAborted == RaisedPosts("header") \cup RaisedPosts("divider") # {}
NotOkItemPosts == {k \in PostsOfKind("item") : dist.posts[k].outcome = "notok"}
ListedNotOk(i) ==
    \E k \in 1..Len(dist.results.item_posts) :
        /\ dist.results.item_posts[k].digest_item_id = i
        /\ ~dist.results.item_posts[k].ok

\* C21: in a returned result, with a feedback store configured, items_stored
\* is the number of item_posts entries with ok true; an item whose post came
\* back not-ok is listed with ok false and not counted; and when the main
\* channel posting was aborted by an exception, item_posts is empty and
\* items_stored is 0.
C21_ItemsStoredCountsOkEntries ==
    (Returned /\ cfg.feedback_store) =>
        /\ dist.results.items_stored = Cardinality(ItemPostsOk)
        /\ ~MainDigestAborted
           => \A k \in NotOkItemPosts : ListedNotOk(dist.posts[k].item)
        /\ MainDigestAborted
           => /\ dist.results.item_posts = <<>>
              /\ dist.results.items_stored = 0

C21_Witness ==
    /\ Returned
    /\ cfg.feedback_store
    /\ ~MainDigestAborted
    /\ NotOkItemPosts # {}
    /\ Len(dist.results.item_posts) = 2
    /\ dist.results.items_stored = 1

====
